---- MODULE Spec2Model ----
(***************************************************************************)
(* Availability and slot-conflict engine of the booking platform.          *)
(*                                                                         *)
(* The store is the relational database (services, availability_rules,     *)
(* availability_exceptions, bookings, users).  TIME columns are minutes    *)
(* since midnight; the handlers see them as "HH:mm" strings, modelled as   *)
(* pairs <<hour, minute>> whose lexicographic order is the string order.   *)
(* A JavaScript Date on the requested day is the number of minutes since   *)
(* that day's midnight (it passes 1440 when addMinutes crosses midnight).  *)
(***************************************************************************)
EXTENDS Integers, Sequences, FiniteSets, TLC

VARIABLES services, rules, exceptions, bookings, users, procs, resp, slotsOut, received

vars == <<services, rules, exceptions, bookings, users, procs, resp, slotsOut, received>>

store == <<services, rules, exceptions, bookings, users>>

----------------------------------------------------------------------------
(* Bounds of the model *)

\* rows drawn into availability_rules by the slot specification
MaxRules == 2
\* rows drawn into bookings by the slot specification
MaxSlotBookings == 1
\* rows drawn into bookings by the sequential reservation specification
MaxSeqBookings == 1
\* rows drawn into bookings by the lifecycle specification
MaxLifeBookings == 1
\* rows drawn into bookings by the reschedule specification
MaxMoveBookings == 2
\* rows drawn into bookings by the cancel-and-rebook specification
MaxFreeBookings == 1
\* rows the bookings table may hold in the reservation specifications
MaxBookings == 2
\* requests the server accepts in one behaviour of the reservation specifications
MaxRequests == 3

----------------------------------------------------------------------------
(* Program constants *)

\* default slot length of the staff slot endpoint
DefaultDuration == 30
\* CHECK (duration_minutes >= 5 AND duration_minutes <= 480)
MinDuration == 5
MaxDuration == 480

Tenants == {1, 2}
Professionals == {1}
ServiceIds == {1, 2, 3}
Dates == {1, 2}
Statuses == {"pending", "confirmed", "completed", "cancelled", "no_show"}
PaymentStatuses == {"pending", "completed"}

----------------------------------------------------------------------------
(* Time Grid: date-fns as the handlers use it *)

\* parse(s, 'HH:mm', dateObj): the Date at hour:minute of the requested day
parse(s) == s[1] * 60 + s[2]

\* format(t, 'HH:mm'): wall-clock hour and minute of a Date, zero padded
format(t) == <<(t \div 60) % 24, t % 60>>

addMinutes(t, n) == t + n

isBefore(a, b) == a < b

isAfter(a, b) == a > b

\* JavaScript < on two "HH:mm" strings
StrLess(a, b) == a[1] < b[1] \/ (a[1] = b[1] /\ a[2] < b[2])

\* parse(date, 'yyyy-MM-dd').getDay(); dates are day numbers counted from a Sunday
getDay(date) == date % 7

\* a TIME column as the handler reads it
TimeText(m) == <<m \div 60, m % 60>>

\* (start_time < $4 AND end_time > $3) on TIME values
OverlapsMut(s1, e1, s2, e2) == s1 <= e2 /\ e1 >= s2
Overlaps(s1, e1, s2, e2) == s1 < e2 /\ e1 > s2

\* status NOT IN ('cancelled')
NotCancelled(b) == b.status # "cancelled"

----------------------------------------------------------------------------
(* Slot generation (GET /availability/slots/:professionalId, GET /public/slots) *)

\* existingBookings.some(b => slotStart < b.end_time && slotEnd > b.start_time)
isBookedInside(slotStart, slotEnd, existing) ==
    \E b \in existing : ~StrLess(slotStart, b.start_time) /\ ~StrLess(b.end_time, slotEnd)
isBookedMut(slotStart, slotEnd, existing) ==
    \E b \in existing : StrLess(slotStart, b.end_time) /\ StrLess(b.start_time, slotStart)
isBooked(slotStart, slotEnd, existing) ==
    \E b \in existing : StrLess(slotStart, b.end_time) /\ StrLess(b.start_time, slotEnd)

\* the while condition: the slot ends before the rule's end, or exactly on it
SlotFitsMut(currentTime, endTime, ruleEnd, d) ==
    isBefore(currentTime, endTime)
SlotFitsNoBoundary(currentTime, endTime, ruleEnd, d) ==
    isBefore(addMinutes(currentTime, d), endTime)
SlotFits(currentTime, endTime, ruleEnd, d) ==
    \/ isBefore(addMinutes(currentTime, d), endTime)
    \/ format(addMinutes(currentTime, d)) = ruleEnd

\* the while loop over one rule, from currentTime on
RECURSIVE SlotLoop(_, _, _, _, _)
SlotLoop(currentTime, endTime, ruleEnd, d, existing) ==
    IF SlotFits(currentTime, endTime, ruleEnd, d)
    THEN LET slotStart == format(currentTime)
             slotEnd   == format(addMinutes(currentTime, d))
             slot      == [start_time |-> slotStart, end_time |-> slotEnd,
                           available |-> ~isBooked(slotStart, slotEnd, existing)]
             next      == addMinutes(currentTime, d)
         IN  IF isAfter(next, endTime) \/ format(next) = ruleEnd
             THEN <<slot>>
             ELSE <<slot>> \o SlotLoop(next, endTime, ruleEnd, d, existing)
    ELSE <<>>

\* for (const rule of rules) { ... }
RECURSIVE GenerateSlots(_, _, _)
GenerateSlots(rs, d, existing) ==
    IF rs = <<>> THEN <<>>
    ELSE LET rule == Head(rs)
         IN  SlotLoop(parse(TimeText(rule.start_time)), parse(TimeText(rule.end_time)),
                      TimeText(rule.end_time), d, existing)
             \o GenerateSlots(Tail(rs), d, existing)

\* ORDER BY start_time: rows in table order, moved up past later start times
RECURSIVE InsertByStart(_, _)
InsertByStart(r, sorted) ==
    IF sorted = <<>> THEN <<r>>
    ELSE IF Head(sorted).start_time <= r.start_time
         THEN <<Head(sorted)>> \o InsertByStart(r, Tail(sorted))
         ELSE <<r>> \o sorted

RECURSIVE OrderByStart(_)
OrderByStart(rs) ==
    IF rs = <<>> THEN <<>>
    ELSE InsertByStart(rs[Len(rs)], OrderByStart(SubSeq(rs, 1, Len(rs) - 1)))

\* SELECT * FROM availability_rules WHERE professional_id, tenant_id, day_of_week,
\* is_active = true ORDER BY start_time
RulesQuery(professionalId, tenantId, dayOfWeek) ==
    LET keep(r) == /\ r.professional_id = professionalId
                   /\ r.tenant_id = tenantId
                   /\ r.day_of_week = dayOfWeek
                   /\ r.is_active
    IN  OrderByStart(SelectSeq(rules, keep))

\* SELECT * FROM availability_exceptions WHERE professional_id = $1 AND date = $2
ExceptionQuery(professionalId, date) ==
    {x \in exceptions : x.professional_id = professionalId /\ x.date = date}

\* if (exception && !exception.is_available) return []
ExceptionBlocksMut(professionalId, date) == FALSE
ExceptionBlocks(professionalId, date) ==
    \E x \in ExceptionQuery(professionalId, date) : ~x.is_available

\* SELECT start_time, end_time FROM bookings WHERE professional_id = $1 AND date = $2
\* AND status NOT IN ('cancelled')
ExistingBookings(professionalId, date) ==
    {[start_time |-> TimeText(bookings[i].start_time),
      end_time   |-> TimeText(bookings[i].end_time)] :
        i \in {j \in DOMAIN bookings : /\ bookings[j].professional_id = professionalId
                                       /\ bookings[j].date = date
                                       /\ NotCancelled(bookings[j])}}

\* the slots both endpoints build once the exception check has passed
SlotList(tenantId, professionalId, date, durationMinutes) ==
    LET rs == RulesQuery(professionalId, tenantId, getDay(date))
    IN  IF rs = <<>> THEN <<>>
        ELSE GenerateSlots(rs, durationMinutes, ExistingBookings(professionalId, date))

\* staff endpoint: the service's duration when service_id names a service of the
\* tenant, 30 minutes otherwise
StaffDuration(tenantId, serviceId) ==
    IF /\ serviceId # <<>>
       /\ serviceId[1] \in DOMAIN services
       /\ services[serviceId[1]].tenant_id = tenantId
    THEN services[serviceId[1]].duration_minutes
    ELSE DefaultDuration

\* public endpoint: SELECT duration_minutes FROM services WHERE id, tenant_id, is_active
PublicServiceFound(tenantId, serviceId) ==
    /\ serviceId \in DOMAIN services
    /\ services[serviceId].tenant_id = tenantId
    /\ services[serviceId].is_active

\* slots.filter(s => s.available)
PublicFilter(slots) ==
    LET keep(s) == s.available IN SelectSeq(slots, keep)

\* no slot query answered yet
NoSlotsOut ==
    [endpoint |-> "none", tenant_id |-> 0, professional_id |-> 0, date |-> 0,
     service_id |-> <<>>, duration |-> 0, code |-> 0, slots |-> <<>>]

\* GET /api/availability/slots/:professionalId
GetSlotsStaffMut(tenantId, professionalId, date, serviceId) ==
    /\ slotsOut' =
         [endpoint |-> "staff", tenant_id |-> tenantId,
          professional_id |-> professionalId, date |-> date,
          service_id |-> serviceId,
          duration |-> StaffDuration(tenantId, serviceId), code |-> 200,
          slots |-> slotsOut.slots \o SlotList(tenantId, professionalId, date,
                                               StaffDuration(tenantId, serviceId))]
    /\ UNCHANGED <<store, procs, resp, received>>
GetSlotsStaff(tenantId, professionalId, date, serviceId) ==
    /\ slotsOut' =
         [endpoint |-> "staff", tenant_id |-> tenantId,
          professional_id |-> professionalId, date |-> date,
          service_id |-> serviceId,
          duration |-> StaffDuration(tenantId, serviceId), code |-> 200,
          slots |-> IF ExceptionBlocks(professionalId, date) THEN <<>>
                    ELSE SlotList(tenantId, professionalId, date,
                                  StaffDuration(tenantId, serviceId))]
    /\ UNCHANGED <<store, procs, resp, received>>

\* GET /api/public/slots
GetSlotsPublic(tenantId, professionalId, date, serviceId) ==
    /\ slotsOut' =
         IF ~PublicServiceFound(tenantId, serviceId)
         THEN [endpoint |-> "public", tenant_id |-> tenantId,
               professional_id |-> professionalId, date |-> date,
               service_id |-> <<serviceId>>,
               duration |-> 0, code |-> 404, slots |-> <<>>]
         ELSE [endpoint |-> "public", tenant_id |-> tenantId,
               professional_id |-> professionalId, date |-> date,
               service_id |-> <<serviceId>>,
               duration |-> services[serviceId].duration_minutes, code |-> 200,
               slots |-> IF ExceptionBlocks(professionalId, date) THEN <<>>
                         ELSE PublicFilter(SlotList(tenantId, professionalId, date,
                                           services[serviceId].duration_minutes))]
    /\ UNCHANGED <<store, procs, resp, received>>

----------------------------------------------------------------------------
(* Rows of the tables *)

Service(t, d, a) == [tenant_id |-> t, duration_minutes |-> d, is_active |-> a]

\* services.duration_minutes CHECK
ServiceCheck(row) ==
    row.duration_minutes >= MinDuration /\ row.duration_minutes <= MaxDuration

Rule(t, p, dow, s, e, a) ==
    [tenant_id |-> t, professional_id |-> p, day_of_week |-> dow,
     start_time |-> s, end_time |-> e, is_active |-> a]

\* availability_rules CHECKs: day_of_week in 0..6, start_time < end_time
RuleCheck(row) ==
    row.day_of_week \in 0..6 /\ row.start_time < row.end_time

\* an availability_exceptions row; times is <<>> (NULL) or <<start_time, end_time>>
Exception(p, d, a, times) ==
    [professional_id |-> p, date |-> d, is_available |-> a, times |-> times]

\* a bookings row; client_id and cancelled_by are <<>> (NULL) or <<id>>
Booking(t, c, p, sv, d, s, e, st, pay, by) ==
    [tenant_id |-> t, client_id |-> c, professional_id |-> p, service_id |-> sv,
     date |-> d, start_time |-> s, end_time |-> e, status |-> st,
     payment_status |-> pay, cancelled_by |-> by]

\* CONSTRAINT valid_booking_time CHECK (start_time < end_time)
BookingCheckAny(row) == TRUE
BookingCheck(row) == row.start_time < row.end_time

\* the services of the model: 30 and 50 minutes on offer, 90 minutes withdrawn
ServiceTable ==
    (1 :> Service(1, 30, TRUE)) @@ (2 :> Service(1, 50, TRUE)) @@ (3 :> Service(1, 90, FALSE))

\* the last HTTP answer of a booking handler
NoResp ==
    [op |-> "none", tenant_id |-> 0, booking_id |-> 0, code |-> 0, event |-> <<>>,
     notified |-> <<>>]

Reply(op, t, id, code) ==
    [NoResp EXCEPT !.op = op, !.tenant_id = t, !.booking_id = id, !.code = code]

\* io.to(`tenant:${tenantId}`).emit(name, {id: booking.id, ...}) ahead of the response
EmitNothing(r, name) == r
Emit(r, name) == [r EXCEPT !.event = <<name>>]

\* the id of the authenticated user of a tenant (users rows 1 and 2)
AuthUser(t) == t

User(t, email) == [tenant_id |-> t, email |-> email]

UserTable == <<User(1, "staff@one"), User(2, "staff@two")>>

SeqsUpTo(S, n) == UNION {[1..k -> S] : k \in 0..n}

----------------------------------------------------------------------------
(* Specification of the slot endpoints over a drawn store *)

SlotRuleRows ==
    {Rule(1, 1, getDay(1), 540, 720, TRUE),
     Rule(1, 1, getDay(1), 600, 690, TRUE),
     Rule(1, 1, getDay(1), 1380, 1430, TRUE),
     Rule(1, 1, getDay(1), 540, 720, FALSE),
     Rule(1, 1, getDay(2), 600, 690, TRUE)}

SlotExceptionStores ==
    {{}, {Exception(1, 1, FALSE, <<>>)}, {Exception(1, 1, TRUE, <<>>)},
     {Exception(1, 1, TRUE, <<600, 660>>)}}

SlotBookingRows ==
    {Booking(1, <<>>, 1, 1, 1, 600, 630, st, "pending", <<>>) :
        st \in {"confirmed", "cancelled", "completed"}}
    \cup {Booking(1, <<>>, 1, 1, 1, 610, 640, "confirmed", "pending", <<>>),
          Booking(1, <<>>, 1, 1, 2, 600, 630, "confirmed", "pending", <<>>)}

\* a slot query as it arrives
SlotQuery(ep, t, p, d, sv) ==
    [endpoint |-> ep, tenant_id |-> t, professional_id |-> p, date |-> d,
     service_id |-> sv]

SlotQueries ==
    {SlotQuery("staff", t, p, d, sv) :
        t \in Tenants, p \in Professionals, d \in Dates,
        sv \in {<<>>} \cup {<<i>> : i \in ServiceIds}}
    \cup {SlotQuery("public", t, p, d, <<i>>) :
            t \in Tenants, p \in Professionals, d \in Dates, i \in ServiceIds}

\* a store the handlers can have built, and one query to answer (and to repeat)
InitSlots ==
    /\ services = ServiceTable
    /\ rules \in SeqsUpTo(SlotRuleRows, MaxRules)
    /\ exceptions \in SlotExceptionStores
    /\ bookings \in SeqsUpTo(SlotBookingRows, MaxSlotBookings)
    /\ users = UserTable
    /\ procs \in [{1} -> SlotQueries]
    /\ resp = NoResp
    /\ slotsOut = NoSlotsOut
    /\ received = 0

NextSlots ==
    \/ \E i \in DOMAIN procs :
          /\ procs[i].endpoint = "staff"
          /\ GetSlotsStaff(procs[i].tenant_id, procs[i].professional_id,
                           procs[i].date, procs[i].service_id)
    \/ \E i \in DOMAIN procs :
          /\ procs[i].endpoint = "public"
          /\ GetSlotsPublic(procs[i].tenant_id, procs[i].professional_id,
                            procs[i].date, procs[i].service_id[1])

SpecSlots == InitSlots /\ [][NextSlots]_vars

----------------------------------------------------------------------------
(* Requests in flight: one record per handler invocation that awaits the store *)

Procs == {1, 2}

NoProc ==
    [kind |-> "none", pc |-> "idle", tenant_id |-> 0, user |-> <<>>, email |-> <<>>,
     professional_id |-> 0, service_id |-> 0, date |-> 0, start_time |-> 0,
     end_time |-> 0, booking_id |-> 0, client_id |-> <<>>, code |-> 0]

\* the request body and context a booking handler starts with
Request(kind, t, user, email, p, sv, d, s, e, id) ==
    [NoProc EXCEPT !.kind = kind, !.tenant_id = t, !.user = user, !.email = email,
                   !.professional_id = p, !.service_id = sv, !.date = d,
                   !.start_time = s, !.end_time = e, !.booking_id = id]

Free(p) == procs[p].pc = "idle"

\* the server takes one more request
Accept == received < MaxRequests /\ received' = received + 1

\* the response is sent and the request is over
Respond(p, code, id) ==
    /\ procs' = [procs EXCEPT ![p] = NoProc]
    /\ resp' = Reply(procs[p].kind, procs[p].tenant_id, id, code)

\* the event is emitted, then the response is sent
RespondEmit(p, code, id, name) ==
    /\ procs' = [procs EXCEPT ![p] = NoProc]
    /\ resp' = Emit(Reply(procs[p].kind, procs[p].tenant_id, id, code), name)

Goto(p, pc) == procs' = [procs EXCEPT ![p].pc = pc] /\ UNCHANGED resp

\* SELECT id FROM users WHERE email = $1 AND tenant_id = $2
UserQuery(email, t) ==
    {i \in DOMAIN users : users[i].email = email /\ users[i].tenant_id = t}

\* SELECT ... FROM services WHERE id = $1 AND tenant_id = $2 [AND is_active = true]
ServiceFound(kind, t, sv) ==
    /\ sv \in DOMAIN services
    /\ services[sv].tenant_id = t
    /\ (kind = "public") => services[sv].is_active

\* SELECT id FROM bookings WHERE professional_id = $1 AND date = $2
\* AND status NOT IN ('cancelled') [AND id != $5] AND (start_time < $4 AND end_time > $3)
ConflictQueryAnyDay(p, d, s, e, except) ==
    \E i \in DOMAIN bookings :
        /\ NotCancelled(bookings[i])
        /\ i \notin except
        /\ Overlaps(bookings[i].start_time, bookings[i].end_time, s, e)
ConflictQueryNoExcept(p, d, s, e, except) ==
    \E i \in DOMAIN bookings :
        /\ bookings[i].professional_id = p
        /\ bookings[i].date = d
        /\ NotCancelled(bookings[i])
        /\ Overlaps(bookings[i].start_time, bookings[i].end_time, s, e)
ConflictQuery(p, d, s, e, except) ==
    \E i \in DOMAIN bookings :
        /\ bookings[i].professional_id = p
        /\ bookings[i].date = d
        /\ NotCancelled(bookings[i])
        /\ i \notin except
        /\ Overlaps(bookings[i].start_time, bookings[i].end_time, s, e)

\* the row both reserve paths insert
NewBookingMut(r) ==
    Booking(r.tenant_id, r.client_id, r.professional_id, r.service_id, r.date,
            r.start_time, r.end_time, "confirmed", "pending", <<>>)
NewBooking(r) ==
    Booking(r.tenant_id, r.client_id, r.professional_id, r.service_id, r.date,
            r.start_time, r.end_time, "pending", "pending", <<>>)

----------------------------------------------------------------------------
(* POST /api/bookings (staff) and POST /api/public/bookings (public) *)

\* the request arrives and the service is looked up (the services table never
\* changes here, so the lookup is taken with the arrival)
ReserveStart(p, r) ==
    /\ Free(p)
    /\ r.kind \in {"staff", "public"}
    /\ IF ServiceFound(r.kind, r.tenant_id, r.service_id)
       THEN procs' = [procs EXCEPT ![p] = [r EXCEPT !.pc = "conflict"]] /\ UNCHANGED resp
       ELSE resp' = Reply(r.kind, r.tenant_id, 0, 404) /\ UNCHANGED procs
    /\ UNCHANGED <<store, slotsOut>>
    /\ Accept

\* the conflict query; on a hit 409, else the client is determined
ReserveConflict(p) ==
    /\ procs[p].kind \in {"staff", "public"}
    /\ procs[p].pc = "conflict"
    /\ LET r == procs[p]
       IN  IF ConflictQuery(r.professional_id, r.date, r.start_time, r.end_time, {})
           THEN Respond(p, 409, 0)
           ELSE IF r.kind = "public" \/ (r.user = <<>> /\ r.email # <<>>)
                THEN Goto(p, "client")
                ELSE /\ procs' = [procs EXCEPT ![p].pc = "insert",
                                               ![p].client_id = r.user]
                     /\ UNCHANGED resp
    /\ UNCHANGED <<store, slotsOut, received>>

\* the guest is looked up by e-mail within the tenant
ReserveClient(p) ==
    /\ procs[p].pc = "client"
    /\ LET found == UserQuery(procs[p].email[1], procs[p].tenant_id)
       IN  IF found # {}
           THEN /\ procs' = [procs EXCEPT ![p].pc = "insert",
                                          ![p].client_id = <<CHOOSE i \in found : TRUE>>]
                /\ UNCHANGED resp
           ELSE Goto(p, "insert_user")
    /\ UNCHANGED <<store, slotsOut, received>>

\* INSERT INTO users; unique_email_per_tenant rejects a second row, which the error
\* handler answers with 500
ReserveInsertUser(p) ==
    /\ procs[p].pc = "insert_user"
    /\ IF UserQuery(procs[p].email[1], procs[p].tenant_id) # {}
       THEN Respond(p, 500, 0) /\ UNCHANGED users
       ELSE /\ users' = Append(users, User(procs[p].tenant_id, procs[p].email[1]))
            /\ procs' = [procs EXCEPT ![p].pc = "insert",
                                      ![p].client_id = <<Len(users) + 1>>]
            /\ UNCHANGED resp
    /\ UNCHANGED <<services, rules, exceptions, bookings, slotsOut, received>>

\* notificationService.scheduleBookingNotifications(bookingId, tenantId) returns or
\* throws; only the public handler calls it
NotifyOutcomes(kind) == IF kind = "public" THEN {<<TRUE>>, <<FALSE>>} ELSE {<<>>}

\* try { await schedule... } catch (err) { console.error(...) } : the outcome is
\* only logged
NotifiedMut(r, n) ==
    [r EXCEPT !.notified = n, !.code = IF n = <<FALSE>> THEN 500 ELSE r.code]
Notified(r, n) == [r EXCEPT !.notified = n]

\* INSERT INTO bookings ... RETURNING *; valid_booking_time rejects start >= end;
\* then booking:created is emitted, the public handler schedules the notifications,
\* and the row is sent with 201
ReserveInsert(p) ==
    /\ procs[p].kind \in {"staff", "public"}
    /\ procs[p].pc = "insert"
    /\ IF BookingCheck(NewBooking(procs[p]))
       THEN /\ Len(bookings) < MaxBookings
            /\ bookings' = Append(bookings, NewBooking(procs[p]))
            /\ procs' = [procs EXCEPT ![p] = NoProc]
            /\ \E n \in NotifyOutcomes(procs[p].kind) :
                   resp' = Notified(Emit(Reply(procs[p].kind, procs[p].tenant_id,
                                               Len(bookings) + 1, 201),
                                         "booking:created"), n)
       ELSE Respond(p, 500, 0) /\ UNCHANGED bookings
    /\ UNCHANGED <<services, rules, exceptions, users, slotsOut, received>>

----------------------------------------------------------------------------
(* POST /api/bookings/:id/reschedule *)

\* the request arrives and the original booking is read
RescheduleStart(p, r) ==
    /\ Free(p)
    /\ r.kind = "reschedule"
    /\ IF r.booking_id \in DOMAIN bookings
          /\ bookings[r.booking_id].tenant_id = r.tenant_id
       THEN /\ procs' = [procs EXCEPT ![p] =
                  [r EXCEPT !.pc = "conflict",
                            !.professional_id = bookings[r.booking_id].professional_id]]
            /\ UNCHANGED resp
       ELSE resp' = Reply(r.kind, r.tenant_id, r.booking_id, 404) /\ UNCHANGED procs
    /\ UNCHANGED <<store, slotsOut>>
    /\ Accept

\* the conflict query at the new time, the booking itself left out
RescheduleConflict(p) ==
    /\ procs[p].kind = "reschedule"
    /\ procs[p].pc = "conflict"
    /\ LET r == procs[p]
       IN  IF ConflictQuery(r.professional_id, r.date, r.start_time, r.end_time,
                            {r.booking_id})
           THEN Respond(p, 409, r.booking_id)
           ELSE Goto(p, "update")
    /\ UNCHANGED <<store, slotsOut, received>>

\* UPDATE bookings SET date, start_time, end_time, status = 'pending'
\* WHERE id = $1 AND tenant_id = $2
RescheduleUpdateMut(p) ==
    /\ procs[p].pc = "update"
    /\ LET r   == procs[p]
           row == [bookings[r.booking_id] EXCEPT !.date = r.date,
                                                 !.start_time = r.start_time,
                                                 !.end_time = r.end_time]
       IN  IF BookingCheck(row)
           THEN /\ bookings' = [bookings EXCEPT ![r.booking_id] = row]
                /\ RespondEmit(p, 200, r.booking_id, "booking:rescheduled")
           ELSE Respond(p, 500, r.booking_id) /\ UNCHANGED bookings
    /\ UNCHANGED <<services, rules, exceptions, users, slotsOut, received>>
RescheduleUpdate(p) ==
    /\ procs[p].pc = "update"
    /\ LET r   == procs[p]
           row == [bookings[r.booking_id] EXCEPT !.date = r.date,
                                                 !.start_time = r.start_time,
                                                 !.end_time = r.end_time,
                                                 !.status = "pending"]
       IN  IF BookingCheck(row)
           THEN /\ bookings' = [bookings EXCEPT ![r.booking_id] = row]
                /\ RespondEmit(p, 200, r.booking_id, "booking:rescheduled")
           ELSE Respond(p, 500, r.booking_id) /\ UNCHANGED bookings
    /\ UNCHANGED <<services, rules, exceptions, users, slotsOut, received>>

----------------------------------------------------------------------------
(* The handlers that are one UPDATE statement *)

\* the rows an UPDATE ... WHERE id = $1 AND tenant_id = $2 touches
OwnRow(t, id) == id \in DOMAIN bookings /\ bookings[id].tenant_id = t

\* PATCH /api/bookings/:id ; status is <<>> (absent) or <<value>>
PatchBooking(t, id, status, notes) ==
    /\ IF status = <<>> /\ ~notes
       THEN resp' = Reply("patch", t, id, 200) /\ UNCHANGED bookings
       ELSE IF ~OwnRow(t, id)
       THEN resp' = Reply("patch", t, id, 404) /\ UNCHANGED bookings
       ELSE /\ bookings' =
                 IF status = <<>> THEN bookings
                 ELSE IF status[1] = "cancelled"
                 THEN [bookings EXCEPT ![id].status = "cancelled",
                                       ![id].cancelled_by = <<AuthUser(t)>>]
                 ELSE [bookings EXCEPT ![id].status = status[1]]
            /\ resp' = Emit(Reply("patch", t, id, 200), "booking:updated")
    /\ UNCHANGED <<services, rules, exceptions, users, procs, slotsOut>>
    /\ Accept

\* POST /api/bookings/:id/confirm
ConfirmBookingPaid(t, id) ==
    /\ IF OwnRow(t, id) /\ bookings[id].status = "pending"
       THEN /\ bookings' = [bookings EXCEPT ![id].status = "confirmed",
                                            ![id].payment_status = "completed"]
            /\ resp' = Emit(Reply("confirm", t, id, 200), "booking:confirmed")
       ELSE resp' = Reply("confirm", t, id, 404) /\ UNCHANGED bookings
    /\ UNCHANGED <<services, rules, exceptions, users, procs, slotsOut>>
    /\ Accept
ConfirmBookingMut(t, id) ==
    /\ IF OwnRow(t, id)
       THEN /\ bookings' = [bookings EXCEPT ![id].status = "confirmed"]
            /\ resp' = Emit(Reply("confirm", t, id, 200), "booking:confirmed")
       ELSE resp' = Reply("confirm", t, id, 404) /\ UNCHANGED bookings
    /\ UNCHANGED <<services, rules, exceptions, users, procs, slotsOut>>
    /\ Accept
ConfirmBooking(t, id) ==
    /\ IF OwnRow(t, id) /\ bookings[id].status = "pending"
       THEN /\ bookings' = [bookings EXCEPT ![id].status = "confirmed"]
            /\ resp' = Emit(Reply("confirm", t, id, 200), "booking:confirmed")
       ELSE resp' = Reply("confirm", t, id, 404) /\ UNCHANGED bookings
    /\ UNCHANGED <<services, rules, exceptions, users, procs, slotsOut>>
    /\ Accept

\* POST /api/bookings/:id/cancel
CancelBookingPendingOnly(t, id) ==
    /\ IF OwnRow(t, id) /\ bookings[id].status = "pending"
       THEN /\ bookings' = [bookings EXCEPT ![id].status = "cancelled",
                                            ![id].cancelled_by = <<AuthUser(t)>>]
            /\ resp' = Emit(Reply("cancel", t, id, 200), "booking:cancelled")
       ELSE resp' = Reply("cancel", t, id, 404) /\ UNCHANGED bookings
    /\ UNCHANGED <<services, rules, exceptions, users, procs, slotsOut>>
    /\ Accept
CancelBookingMut(t, id) ==
    /\ IF OwnRow(t, id) /\ bookings[id].status \notin {"cancelled", "completed"}
       THEN /\ bookings' = [bookings EXCEPT ![id].cancelled_by = <<AuthUser(t)>>]
            /\ resp' = Emit(Reply("cancel", t, id, 200), "booking:cancelled")
       ELSE resp' = Reply("cancel", t, id, 404) /\ UNCHANGED bookings
    /\ UNCHANGED <<services, rules, exceptions, users, procs, slotsOut>>
    /\ Accept
CancelBooking(t, id) ==
    /\ IF OwnRow(t, id) /\ bookings[id].status \notin {"cancelled", "completed"}
       THEN /\ bookings' = [bookings EXCEPT ![id].status = "cancelled",
                                            ![id].cancelled_by = <<AuthUser(t)>>]
            /\ resp' = Emit(Reply("cancel", t, id, 200), "booking:cancelled")
       ELSE resp' = Reply("cancel", t, id, 404) /\ UNCHANGED bookings
    /\ UNCHANGED <<services, rules, exceptions, users, procs, slotsOut>>
    /\ Accept

\* POST /api/webhooks/stripe and /mercadopago on a succeeded payment:
\* UPDATE bookings SET payment_status = 'completed', status = 'confirmed' WHERE id = $2
\* t is the tenant_id and id the booking_id the payment's metadata carries
PaymentWebhook(t, id) ==
    /\ bookings' = IF id \in DOMAIN bookings
                   THEN [bookings EXCEPT ![id].payment_status = "completed",
                                         ![id].status = "confirmed"]
                   ELSE bookings
    /\ resp' = Emit(Reply("webhook", t, id, 200), "payment:completed")
    /\ UNCHANGED <<services, rules, exceptions, users, procs, slotsOut>>
    /\ Accept

----------------------------------------------------------------------------
(* Specification of the booking store under concurrent requests *)

\* the intervals requests ask for: two back to back, one over both, one reversed
ReqIntervals == {<<540, 570>>, <<570, 600>>, <<540, 600>>, <<570, 540>>}

ReqDates == {1}

GuestEmail == "guest@mail"

ReserveRequests ==
    {Request("staff", t, IF auth THEN <<AuthUser(t)>> ELSE <<>>, m, p, 1, d,
             iv[1], iv[2], 0) :
        t \in Tenants, auth \in BOOLEAN, m \in {<<>>, <<GuestEmail>>},
        p \in Professionals, d \in ReqDates, iv \in ReqIntervals}
    \cup {Request("public", t, <<>>, <<GuestEmail>>, p, sv, d, iv[1], iv[2], 0) :
            t \in Tenants, p \in Professionals, sv \in {1, 3},
            d \in ReqDates, iv \in ReqIntervals}

RescheduleRequests ==
    {Request("reschedule", t, <<AuthUser(t)>>, <<>>, 0, 0, d, iv[1], iv[2], id) :
        t \in Tenants, d \in ReqDates, iv \in ReqIntervals, id \in 1..MaxBookings}

Init ==
    /\ services = ServiceTable
    /\ rules = <<>>
    /\ exceptions = {}
    /\ bookings = <<>>
    /\ users = UserTable
    /\ procs = [p \in Procs |-> NoProc]
    /\ resp = NoResp
    /\ slotsOut = NoSlotsOut
    /\ received = 0

Next ==
    \/ \E p \in DOMAIN procs, r \in ReserveRequests : ReserveStart(p, r)
    \/ \E p \in DOMAIN procs : ReserveConflict(p)
    \/ \E p \in DOMAIN procs : ReserveClient(p)
    \/ \E p \in DOMAIN procs : ReserveInsertUser(p)
    \/ \E p \in DOMAIN procs : ReserveInsert(p)
    \/ \E p \in DOMAIN procs, r \in RescheduleRequests : RescheduleStart(p, r)
    \/ \E p \in DOMAIN procs : RescheduleConflict(p)
    \/ \E p \in DOMAIN procs : RescheduleUpdate(p)
    \/ \E t \in Tenants, id \in 1..MaxBookings,
          st \in {<<>>} \cup {<<x>> : x \in Statuses}, n \in BOOLEAN :
          PatchBooking(t, id, st, n)
    \/ \E t \in Tenants, id \in 1..MaxBookings : ConfirmBooking(t, id)
    \/ \E t \in Tenants, id \in 1..MaxBookings : CancelBooking(t, id)
    \/ \E t \in Tenants, id \in 1..MaxBookings : PaymentWebhook(t, id)

Spec == Init /\ [][Next]_vars

\* C1: no two bookings of one professional and date that are not cancelled overlap
C1_NoDoubleBooking ==
    \A i, j \in DOMAIN bookings :
        (/\ i # j
         /\ bookings[i].professional_id = bookings[j].professional_id
         /\ bookings[i].date = bookings[j].date
         /\ bookings[i].status # "cancelled"
         /\ bookings[j].status # "cancelled")
        => ~(/\ bookings[i].start_time < bookings[j].end_time
             /\ bookings[j].start_time < bookings[i].end_time)

\* the request of handler p and the rows of the store that bar it: bookings of its
\* professional and date that are not cancelled and share a minute with [s, e)
ActiveOverlap(r) ==
    \E i \in DOMAIN bookings :
        /\ bookings[i].professional_id = r.professional_id
        /\ bookings[i].date = r.date
        /\ bookings[i].status # "cancelled"
        /\ r.start_time < bookings[i].end_time
        /\ bookings[i].start_time < r.end_time

ReserveInFlight(p) == procs[p].kind \in {"staff", "public"} /\ procs[p].pc # "idle"

\* handler p answers in this step
Answers(p) == procs[p].pc # "idle" /\ procs'[p].pc = "idle"

\* C2: of concurrent reserve requests on overlapping intervals of one professional and
\* date only one commits: a reserve request never inserts its row while a booking that
\* is not cancelled overlaps it (the later request answers 409 instead)
C2_OverlappingReserveNeverCommits ==
    [][\A p \in DOMAIN procs :
          (ReserveInFlight(p) /\ Len(bookings') = Len(bookings) + 1)
              => ~ActiveOverlap(procs[p])]_vars

----------------------------------------------------------------------------
(* Specification of one handler at a time reserving over a drawn store *)

\* rows earlier requests have left: on the requested day in every status, on another
\* day, and of another professional
SeqBookingRows ==
    {Booking(1, <<1>>, 1, 1, 1, 540, 570, st, "pending",
             IF st = "cancelled" THEN <<1>> ELSE <<>>) : st \in Statuses}
    \cup {Booking(1, <<1>>, 1, 1, 2, 540, 570, "confirmed", "completed", <<>>),
          Booking(1, <<>>, 2, 1, 1, 540, 570, "pending", "pending", <<>>)}

\* before, onto, across, after and back to front of the row 09:00-09:30
SeqIntervals == {<<510, 540>>, <<540, 570>>, <<560, 580>>, <<570, 600>>, <<570, 540>>}

SeqRequests ==
    {Request("staff", 1, IF auth THEN <<AuthUser(1)>> ELSE <<>>, m, 1, 1, 1,
             iv[1], iv[2], 0) :
        auth \in BOOLEAN, m \in {<<>>, <<GuestEmail>>}, iv \in SeqIntervals}
    \cup {Request("public", 1, <<>>, <<GuestEmail>>, 1, 1, 1, iv[1], iv[2], 0) :
            iv \in SeqIntervals}

InitSeq ==
    /\ services = ServiceTable
    /\ rules = <<>>
    /\ exceptions = {}
    /\ bookings \in SeqsUpTo(SeqBookingRows, MaxSeqBookings)
    /\ users = UserTable
    /\ procs = [p \in {1} |-> NoProc]
    /\ resp = NoResp
    /\ slotsOut = NoSlotsOut
    /\ received = 0

NextSeq ==
    \/ \E p \in DOMAIN procs, r \in SeqRequests : ReserveStart(p, r)
    \/ \E p \in DOMAIN procs : ReserveConflict(p)
    \/ \E p \in DOMAIN procs : ReserveClient(p)
    \/ \E p \in DOMAIN procs : ReserveInsertUser(p)
    \/ \E p \in DOMAIN procs : ReserveInsert(p)

SpecSeq == InitSeq /\ [][NextSeq]_vars

\* C3: a reserve request run alone answers 409 and inserts no row exactly when a booking
\* of its professional and date that is not cancelled overlaps [s, e); a back-to-back
\* interval and one held only by cancelled bookings are admitted
C3_ConflictIffActiveOverlap ==
    [][\A p \in DOMAIN procs :
          (ReserveInFlight(p) /\ Answers(p)) =>
              ((resp'.code = 409 /\ bookings' = bookings) <=> ActiveOverlap(procs[p]))]_vars

\* an interval held by a cancelled booking was admitted, and asked for again it is refused
C3_Witness ==
    /\ resp.code = 409 /\ resp.op \in {"staff", "public"}
    /\ Len(bookings) = 2
    /\ bookings[1].status = "cancelled"
    /\ bookings[2].status = "pending"
    /\ bookings[1].professional_id = bookings[2].professional_id
    /\ bookings[1].date = bookings[2].date
    /\ bookings[1].start_time = bookings[2].start_time
    /\ bookings[1].end_time = bookings[2].end_time

\* the request of p went past the conflict check and p answers in this step
AnswersPastCheck(p) ==
    ReserveInFlight(p) /\ procs[p].pc \in {"insert_user", "insert"} /\ Answers(p)

\* the step appends one pending row with the fields of the request of p and leaves the
\* rows before it as they were
AddsRequestedRow(p) ==
    /\ Len(bookings') = Len(bookings) + 1
    /\ SubSeq(bookings', 1, Len(bookings)) = bookings
    /\ LET row == bookings'[Len(bookings')]
       IN  /\ row.professional_id = procs[p].professional_id
           /\ row.date = procs[p].date
           /\ row.start_time = procs[p].start_time
           /\ row.end_time = procs[p].end_time
           /\ row.tenant_id = procs[p].tenant_id
           /\ row.service_id = procs[p].service_id
           /\ row.status = "pending"
           /\ row.payment_status = "pending"
    /\ resp'.code = 201

C19_NoRowOfFailedReserve ==
    (\A p \in DOMAIN procs : procs[p].pc = "idle") =>
        \A i \in DOMAIN users :
            i > Len(UserTable) => \E b \in DOMAIN bookings : bookings[b].client_id = <<i>>

----------------------------------------------------------------------------
(* Specification of the one-statement handlers over a drawn store *)

\* rows in every status as the handlers leave them: a cancelled row names who
\* cancelled it, a paid one is confirmed
LifeBookingRows ==
    {Booking(1, <<1>>, 1, 1, 1, 540, 570, st, "pending",
             IF st = "cancelled" THEN <<1>> ELSE <<>>) : st \in Statuses}
    \cup {Booking(1, <<1>>, 1, 1, 1, 540, 570, "confirmed", "completed", <<>>)}

InitLife ==
    /\ services = ServiceTable
    /\ rules = <<>>
    /\ exceptions = {}
    /\ bookings \in SeqsUpTo(LifeBookingRows, MaxLifeBookings)
    /\ users = UserTable
    /\ procs = [p \in {1} |-> NoProc]
    /\ resp = NoResp
    /\ slotsOut = NoSlotsOut
    /\ received = 0

NextLife ==
    \/ \E t \in Tenants, id \in 1..MaxBookings,
          st \in {<<>>} \cup {<<x>> : x \in Statuses}, n \in BOOLEAN :
          PatchBooking(t, id, st, n)
    \/ \E t \in Tenants, id \in 1..MaxBookings : ConfirmBooking(t, id)
    \/ \E t \in Tenants, id \in 1..MaxBookings : CancelBooking(t, id)
    \/ \E t \in Tenants, id \in 1..MaxBookings : PaymentWebhook(t, id)

SpecLife == InitLife /\ [][NextLife]_vars

\* a request of the named one-statement handler is answered in this step
Handled(op) == received' = received + 1 /\ resp'.op = op

\* the table after the step differs from the one before in the status of row id only
OnlyStatusOf(id, st) == bookings' = [bookings EXCEPT ![id].status = st]

\* C12: confirm answers 200 only for a pending booking of the tenant, which becomes
\* confirmed; on a confirmed, cancelled, completed or no_show booking it answers an
\* error and the table is unchanged
C12_ConfirmOnlyFromPending ==
    [][Handled("confirm") =>
          LET id == resp'.booking_id
          IN  IF /\ id \in DOMAIN bookings
                 /\ bookings[id].tenant_id = resp'.tenant_id
                 /\ bookings[id].status = "pending"
              THEN resp'.code = 200 /\ OnlyStatusOf(id, "confirmed")
              ELSE resp'.code >= 400 /\ bookings' = bookings]_vars

\* confirm has been refused on a booking that was already confirmed
C12_Witness ==
    /\ resp.op = "confirm" /\ resp.code = 404 /\ resp.tenant_id = 1
    /\ resp.booking_id \in DOMAIN bookings
    /\ bookings[resp.booking_id].status = "confirmed"

\* C13: a booking becomes cancelled only from pending or confirmed
C13_CancelledOnlyFromOpen ==
    [][\A i \in DOMAIN bookings :
          (bookings'[i].status = "cancelled" /\ bookings[i].status # "cancelled")
              => bookings[i].status \in {"pending", "confirmed"}]_vars

\* C14: completed, cancelled and no_show are absorbing
C14_TerminalAbsorbing ==
    [][\A i \in DOMAIN bookings :
          bookings[i].status \in {"completed", "cancelled", "no_show"}
              => bookings'[i].status = bookings[i].status]_vars

\* C15: a booking becomes completed or no_show only from confirmed
C15_ClosedOnlyFromConfirmed ==
    [][\A i \in DOMAIN bookings :
          (/\ bookings'[i].status \in {"completed", "no_show"}
           /\ bookings'[i].status # bookings[i].status)
              => bookings[i].status = "confirmed"]_vars

----------------------------------------------------------------------------
(* Specification of one handler at a time rescheduling over a drawn store *)

\* rows on the requested day, one confirmed and one cancelled; a paid row on another
\* day; a row of another professional
MoveBookingRows ==
    {Booking(1, <<1>>, 1, 1, 1, 540, 570, st, "pending",
             IF st = "cancelled" THEN <<1>> ELSE <<>>) :
        st \in {"confirmed", "cancelled"}}
    \cup {Booking(1, <<1>>, 1, 1, 2, 540, 570, "confirmed", "completed", <<>>),
          Booking(1, <<>>, 2, 1, 1, 540, 570, "pending", "pending", <<>>)}

\* behind 09:00-09:30, across its end, and back to front
MoveIntervals == {<<570, 600>>, <<560, 590>>, <<570, 540>>}

MoveRequests ==
    {Request("reschedule", t, <<AuthUser(t)>>, <<>>, 0, 0, d, iv[1], iv[2], id) :
        t \in Tenants, d \in Dates, iv \in MoveIntervals, id \in 1..MaxBookings}

InitMove ==
    /\ services = ServiceTable
    /\ rules = <<>>
    /\ exceptions = {}
    /\ bookings \in SeqsUpTo(MoveBookingRows, MaxMoveBookings)
    /\ users = UserTable
    /\ procs = [p \in {1} |-> NoProc]
    /\ resp = NoResp
    /\ slotsOut = NoSlotsOut
    /\ received = 0

NextMove ==
    \/ \E p \in DOMAIN procs, r \in MoveRequests : RescheduleStart(p, r)
    \/ \E p \in DOMAIN procs : RescheduleConflict(p)
    \/ \E p \in DOMAIN procs : RescheduleUpdate(p)

SpecMove == InitMove /\ [][NextMove]_vars

\* the reschedule request of handler p is answered in this step
MoveAnswers(p) == procs[p].kind = "reschedule" /\ Answers(p)

\* in table bk a booking other than row id, of professional pr on date d and not
\* cancelled, shares a minute with [s, e)
OthersOverlap(bk, id, pr, d, s, e) ==
    \E i \in DOMAIN bk :
        /\ i # id
        /\ bk[i].professional_id = pr
        /\ bk[i].date = d
        /\ bk[i].status # "cancelled"
        /\ s < bk[i].end_time
        /\ bk[i].start_time < e

\* C16: reschedule answers 409 and leaves the table unchanged exactly when another
\* booking of the professional on the new date, not cancelled, overlaps the new
\* interval; the booking's own current interval never conflicts
C16_MoveConflictIffOthersOverlap ==
    [][\A p \in DOMAIN procs :
          MoveAnswers(p) =>
              LET r == procs[p]
              IN  (resp'.code = 409 /\ bookings' = bookings)
                  <=> OthersOverlap(bookings, r.booking_id,
                                    bookings[r.booking_id].professional_id,
                                    r.date, r.start_time, r.end_time)]_vars

\* the first request moved a booking of day 1 across its own interval, 09:10-09:50
\* being held besides only by a cancelled booking
C16_Witness ==
    /\ received = 1 /\ resp.op = "reschedule" /\ resp.code = 200
    /\ Len(bookings) = 2
    /\ \E i, j \in DOMAIN bookings :
          /\ i = resp.booking_id /\ j # i
          /\ bookings[i].payment_status = "pending"
          /\ bookings[i].date = 1
          /\ bookings[i].start_time = 560 /\ bookings[i].end_time = 590
          /\ bookings[j].date = 1 /\ bookings[j].status = "cancelled"
          /\ bookings[j].professional_id = bookings[i].professional_id

\* C17: a reschedule answered 200 sets date, start_time and end_time of the booking to
\* the requested values and its status to pending, and changes nothing else in the table
C17_MoveSetsTimesAndPending ==
    [][\A p \in DOMAIN procs :
          (MoveAnswers(p) /\ resp'.code = 200) =>
              LET r == procs[p]
              IN  bookings' =
                    [bookings EXCEPT ![r.booking_id] =
                        [@ EXCEPT !.date = r.date, !.start_time = r.start_time,
                                  !.end_time = r.end_time, !.status = "pending"]]]_vars

\* the paid, confirmed booking of day 2 was moved to day 1: pending again, still paid,
\* the other row as drawn
C17_Witness ==
    /\ received = 1 /\ resp.op = "reschedule" /\ resp.code = 200
    /\ Len(bookings) = 2
    /\ \E i, j \in DOMAIN bookings :
          /\ i = resp.booking_id /\ j # i
          /\ bookings[i].payment_status = "completed"
          /\ bookings[i].status = "pending"
          /\ bookings[i].date = 1 /\ bookings[i].client_id = <<1>>
          /\ bookings[j].status = "cancelled" /\ bookings[j].cancelled_by = <<1>>

\* C18: in a table without double bookings, after a reschedule answered 200 the way
\* back is open: no other booking of the professional, not cancelled, overlaps the
\* interval the booking has left, and the table has as many rows as before
C18_MoveBackAdmitted ==
    [][\A p \in DOMAIN procs :
          (MoveAnswers(p) /\ resp'.code = 200 /\ C1_NoDoubleBooking) =>
              LET id == procs[p].booking_id
              IN  /\ Len(bookings') = Len(bookings)
                  /\ ~OthersOverlap(bookings', id, bookings[id].professional_id,
                                    bookings[id].date, bookings[id].start_time,
                                    bookings[id].end_time)]_vars

----------------------------------------------------------------------------
(* Properties of the slot endpoints *)

SlotsCalled == slotsOut.endpoint # "none"

SlotsOk == SlotsCalled /\ slotsOut.code = 200

\* the active weekly rules of the answered query, by row number
MatchingRules ==
    {i \in DOMAIN rules : /\ rules[i].professional_id = slotsOut.professional_id
                          /\ rules[i].tenant_id = slotsOut.tenant_id
                          /\ rules[i].day_of_week = slotsOut.date % 7
                          /\ rules[i].is_active}

\* the exception rows of the answered query
MatchingExceptions ==
    {x \in exceptions : x.professional_id = slotsOut.professional_id
                        /\ x.date = slotsOut.date}

BlockedDate == \E x \in MatchingExceptions : ~x.is_available

\* the active bookings of the answered query, by row number
ActiveBookings ==
    {i \in DOMAIN bookings : /\ bookings[i].professional_id = slotsOut.professional_id
                             /\ bookings[i].date = slotsOut.date
                             /\ bookings[i].status # "cancelled"}

Minutes(hm) == hm[1] * 60 + hm[2]

\* half-open overlap of a slot with some active booking
SlotTaken(slot) ==
    \E i \in ActiveBookings : /\ Minutes(slot.start_time) < bookings[i].end_time
                              /\ bookings[i].start_time < Minutes(slot.end_time)

\* the candidates of the answered query: <<rule row, k>> for the k-th step of a window
Candidates ==
    {<<i, k>> \in MatchingRules \X (0..47) :
        rules[i].start_time + (k + 1) * slotsOut.duration <= rules[i].end_time}

CandidateTaken(c) ==
    \E i \in ActiveBookings :
        /\ rules[c[1]].start_time + c[2] * slotsOut.duration < bookings[i].end_time
        /\ bookings[i].start_time < rules[c[1]].start_time + (c[2] + 1) * slotsOut.duration

\* C5: with an is_available = false exception on (professional, date) the slot list is
\* empty, whatever the service, the weekly rules and the bookings
C5_BlockedDateHasNoSlots == (SlotsCalled /\ BlockedDate) => slotsOut.slots = <<>>

C5_Witness ==
    /\ SlotsOk /\ BlockedDate /\ slotsOut.slots = <<>>
    /\ \E i, j \in MatchingRules :
          /\ i # j
          /\ rules[i].start_time < rules[j].end_time
          /\ rules[j].start_time < rules[i].end_time

\* C6: with an is_available = true exception carrying start and end times, the slots are
\* those of the exception's window: all inside it, and as many as fit in it
C6_OverrideWindowUsed ==
    \A x \in MatchingExceptions :
        (SlotsOk /\ x.is_available /\ x.times # <<>>) =>
            /\ \A k \in DOMAIN slotsOut.slots :
                  /\ Minutes(slotsOut.slots[k].start_time) >= x.times[1]
                  /\ Minutes(slotsOut.slots[k].end_time) <= x.times[2]
            /\ (ActiveBookings = {}) =>
                  Len(slotsOut.slots) = (x.times[2] - x.times[1]) \div slotsOut.duration

\* C7: every slot lasts exactly the duration and lies inside a window of the day
C7_SlotsExactAndInside ==
    SlotsOk =>
        \A k \in DOMAIN slotsOut.slots :
            LET slot == slotsOut.slots[k]
            IN  /\ Minutes(slot.end_time) - Minutes(slot.start_time) = slotsOut.duration
                /\ \E i \in MatchingRules :
                      /\ Minutes(slot.start_time) >= rules[i].start_time
                      /\ Minutes(slot.end_time) <= rules[i].end_time

\* a window that the duration does not divide has been walked
C7_Witness ==
    /\ SlotsOk /\ slotsOut.slots # <<>>
    /\ \A i \in MatchingRules :
          (rules[i].end_time - rules[i].start_time) % slotsOut.duration # 0

\* C8: one window [ws, we) and duration d give floor((we - ws) / d) slots, the k-th being
\* [ws + k*d, ws + (k+1)*d), in ascending order, the one ending on we included
C8_SingleWindowSlots ==
    \A i \in MatchingRules :
        (SlotsOk /\ MatchingRules = {i} /\ ~BlockedDate /\ ActiveBookings = {}) =>
            /\ Len(slotsOut.slots) =
                 (rules[i].end_time - rules[i].start_time) \div slotsOut.duration
            /\ \A k \in DOMAIN slotsOut.slots :
                  /\ Minutes(slotsOut.slots[k].start_time) =
                       rules[i].start_time + (k - 1) * slotsOut.duration
                  /\ Minutes(slotsOut.slots[k].end_time) =
                       rules[i].start_time + k * slotsOut.duration

\* 09:00-12:00 walked in steps of 30: six slots, the last one 11:30-12:00
C8_Witness ==
    /\ SlotsOk /\ ~BlockedDate /\ ActiveBookings = {} /\ slotsOut.duration = 30
    /\ \E i \in MatchingRules :
          MatchingRules = {i} /\ rules[i].start_time = 540 /\ rules[i].end_time = 720
    /\ Len(slotsOut.slots) = 6
    /\ slotsOut.slots[1].start_time = <<9, 0>>
    /\ slotsOut.slots[6] = [start_time |-> <<11, 30>>, end_time |-> <<12, 0>>,
                            available |-> TRUE]

\* C9 as stated: every candidate is returned, booked ones with available = false
C9_AllCandidatesReturned ==
    (SlotsOk /\ ~BlockedDate) =>
        /\ Len(slotsOut.slots) = Cardinality(Candidates)
        /\ \A k \in DOMAIN slotsOut.slots :
              slotsOut.slots[k].available <=> ~SlotTaken(slotsOut.slots[k])

\* C9 amended: the staff endpoint returns every candidate, available exactly when no
\* active booking overlaps it; the public endpoint returns the free candidates only
C9_StaffAllPublicFree ==
    (SlotsOk /\ ~BlockedDate) =>
        /\ \A k \in DOMAIN slotsOut.slots :
              slotsOut.slots[k].available <=> ~SlotTaken(slotsOut.slots[k])
        /\ slotsOut.endpoint = "staff" =>
              Len(slotsOut.slots) = Cardinality(Candidates)
        /\ slotsOut.endpoint = "public" =>
              /\ Len(slotsOut.slots) =
                   Cardinality({c \in Candidates : ~CandidateTaken(c)})
              /\ \A k \in DOMAIN slotsOut.slots : slotsOut.slots[k].available

\* 09:00-12:00 in steps of 30 with a confirmed booking 10:00-10:30: six entries, the
\* third one unavailable
C9_Witness ==
    /\ SlotsOk /\ slotsOut.endpoint = "staff" /\ slotsOut.duration = 30
    /\ \E i \in MatchingRules :
          MatchingRules = {i} /\ rules[i].start_time = 540 /\ rules[i].end_time = 720
    /\ \E i \in ActiveBookings :
          /\ ActiveBookings = {i} /\ bookings[i].status = "confirmed"
          /\ bookings[i].start_time = 600 /\ bookings[i].end_time = 630
    /\ Len(slotsOut.slots) = 6
    /\ \A k \in 1..6 : slotsOut.slots[k].available <=> k # 3

----------------------------------------------------------------------------
(* Specification of cancelling, querying slots and reserving over a drawn store *)

\* the professional works 09:00-12:00 on the day, or has no rule
FreeRuleStores == {<<>>, <<Rule(1, 1, getDay(1), 540, 720, TRUE)>>}

\* the day is as the rules say, or blocked
FreeExceptionStores == {{}, {Exception(1, 1, FALSE, <<>>)}}

\* 10:00-10:30 is held by a booking no one has cancelled
FreeBookingRows ==
    {Booking(1, <<1>>, 1, 1, 1, 600, 630, st, "pending", <<>>) :
        st \in {"pending", "confirmed", "completed", "no_show"}}

\* the held interval and one before the working hours
FreeIntervals == {<<600, 630>>, <<480, 510>>}

FreeRequests ==
    {Request("staff", 1, <<AuthUser(1)>>, <<>>, 1, 1, 1, iv[1], iv[2], 0) :
        iv \in FreeIntervals}
    \cup {Request("public", 1, <<>>, <<GuestEmail>>, 1, 1, 1, iv[1], iv[2], 0) :
            iv \in FreeIntervals}

InitFree ==
    /\ services = ServiceTable
    /\ rules \in FreeRuleStores
    /\ exceptions \in FreeExceptionStores
    /\ bookings \in SeqsUpTo(FreeBookingRows, MaxFreeBookings)
    /\ users = UserTable
    /\ procs = [p \in {1} |-> NoProc]
    /\ resp = NoResp
    /\ slotsOut = NoSlotsOut
    /\ received = 0

NextFree ==
    \/ \E t \in Tenants, id \in 1..MaxBookings : CancelBooking(t, id)
    \/ GetSlotsStaff(1, 1, 1, <<1>>)
    \/ GetSlotsPublic(1, 1, 1, 1)
    \/ \E p \in DOMAIN procs, r \in FreeRequests : ReserveStart(p, r)
    \/ \E p \in DOMAIN procs : ReserveConflict(p)
    \/ \E p \in DOMAIN procs : ReserveClient(p)
    \/ \E p \in DOMAIN procs : ReserveInsertUser(p)
    \/ \E p \in DOMAIN procs : ReserveInsert(p)

SpecFree == InitFree /\ [][NextFree]_vars

\* a booking of professional pr on date d that no cancel request has been answered
\* 200 for shares a minute with [s, e)
HeldUncancelled(pr, d, s, e) ==
    \E i \in DOMAIN bookings :
        /\ bookings[i].professional_id = pr
        /\ bookings[i].date = d
        /\ bookings[i].cancelled_by = <<>>
        /\ s < bookings[i].end_time
        /\ bookings[i].start_time < e

\* a slot query is answered in this step
SlotsAnswered == received' = received /\ procs' = procs /\ slotsOut'.code = 200

\* C11: a cancelled booking no longer blocks its interval: a slot query reports every
\* slot that only cancelled bookings overlap as available, and a reserve request for an
\* interval that only cancelled bookings overlap is answered 201 and adds its row
C11_CancelFreesInterval ==
    [][/\ SlotsAnswered =>
            \A k \in DOMAIN slotsOut'.slots :
                LET slot == slotsOut'.slots[k]
                IN  ~HeldUncancelled(slotsOut'.professional_id, slotsOut'.date,
                                     Minutes(slot.start_time), Minutes(slot.end_time))
                        => slot.available
       /\ \A p \in DOMAIN procs :
            (/\ ReserveInFlight(p) /\ Answers(p)
             /\ procs[p].start_time < procs[p].end_time
             /\ ~HeldUncancelled(procs[p].professional_id, procs[p].date,
                                 procs[p].start_time, procs[p].end_time))
                => (resp'.code = 201 /\ Len(bookings') = Len(bookings) + 1)]_vars

\* the booking at 10:00-10:30 was cancelled, the staff slot list then showed
\* 10:00-10:30 available, and the interval has been reserved again
C11_Witness ==
    /\ Len(bookings) = 2
    /\ bookings[1].status = "cancelled" /\ bookings[1].cancelled_by # <<>>
    /\ bookings[1].start_time = 600 /\ bookings[1].end_time = 630
    /\ bookings[2].status = "pending"
    /\ bookings[2].start_time = 600 /\ bookings[2].end_time = 630
    /\ resp.code = 201
    /\ slotsOut.endpoint = "staff" /\ Len(slotsOut.slots) = 6
    /\ slotsOut.slots[3].start_time = <<10, 0>> /\ slotsOut.slots[3].available

\* the date is blocked by an exception of the professional
DateBlocked(pr, d) ==
    \E x \in exceptions : x.professional_id = pr /\ x.date = d /\ ~x.is_available

\* an active weekly rule of the professional and tenant for the day of week of d
\* covers [s, e)
InsideRuleHours(t, pr, d, s, e) ==
    \E i \in DOMAIN rules :
        /\ rules[i].professional_id = pr
        /\ rules[i].tenant_id = t
        /\ rules[i].day_of_week = d % 7
        /\ rules[i].is_active
        /\ rules[i].start_time <= s
        /\ e <= rules[i].end_time

\* C20: the public reserve path inserts a booking only on a date that is not blocked
\* and inside the hours of an active weekly rule of the professional for that day
C20_PublicReserveInsideAvailability ==
    [][\A p \in DOMAIN procs :
          (procs[p].kind = "public" /\ Len(bookings') = Len(bookings) + 1)
              => /\ ~DateBlocked(procs[p].professional_id, procs[p].date)
                 /\ InsideRuleHours(procs[p].tenant_id, procs[p].professional_id,
                                    procs[p].date, procs[p].start_time,
                                    procs[p].end_time)]_vars

----------------------------------------------------------------------------
(* Specification of one handler at a time over a drawn store, with the events *)

MaxEmitBookings == 1

\* a booking of tenant 1 at 09:00-09:30, waiting or confirmed
EmitBookingRows ==
    {Booking(1, <<1>>, 1, 1, 1, 540, 570, st, "pending", <<>>) :
        st \in {"pending", "confirmed"}}

\* onto the row, next to it, and back to front
EmitIntervals == {<<540, 570>>, <<570, 600>>, <<570, 540>>}

EmitRequests ==
    {Request("staff", 1, <<AuthUser(1)>>, <<>>, 1, 1, 1, iv[1], iv[2], 0) :
        iv \in EmitIntervals}
    \cup {Request("public", 1, <<>>, <<GuestEmail>>, 1, sv, 1, iv[1], iv[2], 0) :
            sv \in {1, 3}, iv \in EmitIntervals}

EmitMoves ==
    {Request("reschedule", t, <<AuthUser(t)>>, <<>>, 0, 0, 1, iv[1], iv[2], id) :
        t \in Tenants, iv \in EmitIntervals, id \in 1..MaxBookings}

InitEmit ==
    /\ services = ServiceTable
    /\ rules = <<>>
    /\ exceptions = {}
    /\ bookings \in SeqsUpTo(EmitBookingRows, MaxEmitBookings)
    /\ users = UserTable
    /\ procs = [p \in {1} |-> NoProc]
    /\ resp = NoResp
    /\ slotsOut = NoSlotsOut
    /\ received = 0

NextEmit ==
    \/ \E p \in DOMAIN procs, r \in EmitRequests : ReserveStart(p, r)
    \/ \E p \in DOMAIN procs : ReserveConflict(p)
    \/ \E p \in DOMAIN procs : ReserveClient(p)
    \/ \E p \in DOMAIN procs : ReserveInsertUser(p)
    \/ \E p \in DOMAIN procs : ReserveInsert(p)
    \/ \E p \in DOMAIN procs, r \in EmitMoves : RescheduleStart(p, r)
    \/ \E p \in DOMAIN procs : RescheduleConflict(p)
    \/ \E p \in DOMAIN procs : RescheduleUpdate(p)
    \/ \E t \in Tenants, id \in 1..MaxBookings : ConfirmBooking(t, id)
    \/ \E t \in Tenants, id \in 1..MaxBookings : CancelBooking(t, id)

SpecEmit == InitEmit /\ [][NextEmit]_vars

\* a request is answered in this step
Answered ==
    \/ received' = received + 1 /\ procs' = procs
    \/ \E p \in DOMAIN procs : Answers(p)

\* the event each operation emits when it succeeds
EventOf(op) ==
    CASE op \in {"staff", "public"} -> "booking:created"
      [] op = "confirm"             -> "booking:confirmed"
      [] op = "cancel"              -> "booking:cancelled"
      [] op = "reschedule"          -> "booking:rescheduled"

\* the mutation the event reports is in the table after the step and was not before
Committed(name, id) ==
    /\ id \in DOMAIN bookings'
    /\ bookings'[id].tenant_id = resp'.tenant_id
    /\ CASE name = "booking:created" ->
              id \notin DOMAIN bookings /\ bookings'[id].status = "pending"
         [] name = "booking:confirmed" ->
              bookings[id].status = "pending" /\ bookings'[id].status = "confirmed"
         [] name = "booking:cancelled" ->
              bookings[id].status # "cancelled" /\ bookings'[id].status = "cancelled"
         [] name = "booking:rescheduled" ->
              \E p \in DOMAIN procs :
                  /\ procs[p].pc = "update" /\ procs[p].booking_id = id
                  /\ bookings'[id].date = procs[p].date
                  /\ bookings'[id].start_time = procs[p].start_time
                  /\ bookings'[id].end_time = procs[p].end_time

\* C21: an answered request emits an event exactly when it succeeded, the event is
\* the one of its operation and carries the id of the booking, and the mutation is
\* committed when it is emitted; a rejected request (409, 404, 500) emits nothing
\* and leaves the bookings as they were
C21_EventsFollowCommits ==
    [][Answered =>
          IF resp'.code \in {200, 201}
          THEN /\ resp'.event = <<EventOf(resp'.op)>>
               /\ Committed(resp'.event[1], resp'.booking_id)
          ELSE resp'.event = <<>> /\ bookings' = bookings]_vars

\* a reschedule to 09:30 has just emitted booking:rescheduled for the booking moved
C21_Witness ==
    /\ resp.op = "reschedule" /\ resp.code = 200
    /\ resp.event = <<"booking:rescheduled">>
    /\ resp.booking_id \in DOMAIN bookings
    /\ bookings[resp.booking_id].start_time = 570
    /\ bookings[resp.booking_id].status = "pending"

----------------------------------------------------------------------------
(* Reschedule racing with reserve *)

\* handler p commits its reschedule in this step
MoveCommits(p) ==
    /\ procs[p].kind = "reschedule" /\ procs[p].pc = "update"
    /\ procs'[p].pc = "idle" /\ resp'.code = 200

\* C22: of a reschedule and a concurrent reserve or reschedule onto an overlapping
\* interval of the same professional and date at most one commits: a reschedule never
\* writes its new interval while another booking of the professional and date that
\* is not cancelled overlaps it
C22_OverlappingMoveNeverCommits ==
    [][\A p \in DOMAIN procs :
          MoveCommits(p) =>
              ~OthersOverlap(bookings, procs[p].booking_id,
                             bookings[procs[p].booking_id].professional_id,
                             procs[p].date, procs[p].start_time,
                             procs[p].end_time)]_vars

----------------------------------------------------------------------------
(* Reserve is local to its professional and date *)

\* the bookings of the professional and date of request r that are not cancelled
SameDayActive(r) ==
    {i \in DOMAIN bookings :
        /\ bookings[i].professional_id = r.professional_id
        /\ bookings[i].date = r.date
        /\ bookings[i].status # "cancelled"}

\* C23: what a reserve request is answered depends only on the bookings of its own
\* professional and date that are not cancelled: it is refused with 409 exactly when
\* one of those overlaps the requested interval, whatever is booked for other
\* professionals and on other dates; and it changes no booking already in the table,
\* the row it adds being one of its own professional and date
C23_ReserveLocalToProfessionalAndDate ==
    [][\A p \in DOMAIN procs :
          (ReserveInFlight(p) /\ Answers(p)) =>
              LET r == procs[p]
              IN  /\ resp'.code = 409 <=>
                        \E i \in SameDayActive(r) :
                            /\ bookings[i].start_time < r.end_time
                            /\ r.start_time < bookings[i].end_time
                  /\ \A i \in DOMAIN bookings :
                        i \in DOMAIN bookings' /\ bookings'[i] = bookings[i]
                  /\ \A i \in DOMAIN bookings' \ DOMAIN bookings :
                        /\ bookings'[i].professional_id = r.professional_id
                        /\ bookings'[i].date = r.date]_vars

\* 09:00-09:30 was reserved for professional 1 while professional 2 holds the same
\* half hour of the same date
C23_Witness ==
    /\ resp.code = 201 /\ Len(bookings) = 2
    /\ bookings[1].professional_id = 2 /\ bookings[1].status = "pending"
    /\ bookings[2].professional_id = 1
    /\ bookings[1].date = bookings[2].date
    /\ bookings[1].start_time = bookings[2].start_time
    /\ bookings[1].end_time = bookings[2].end_time

----------------------------------------------------------------------------
(* Specification of the staff handlers that write a booking, over paid and unpaid rows *)

MaxPayBookings == 1

\* a booking at 09:00-09:30, waiting or confirmed, paid or not
PayBookingRows ==
    {Booking(1, <<1>>, 1, 1, 1, 540, 570, st, pay, <<>>) :
        st \in {"pending", "confirmed"}, pay \in {"pending", "completed"}}

InitPay ==
    /\ services = ServiceTable
    /\ rules = <<>>
    /\ exceptions = {}
    /\ bookings \in SeqsUpTo(PayBookingRows, MaxPayBookings)
    /\ users = UserTable
    /\ procs = [p \in {1} |-> NoProc]
    /\ resp = NoResp
    /\ slotsOut = NoSlotsOut
    /\ received = 0

NextPay ==
    \/ \E t \in Tenants, id \in 1..MaxBookings,
          st \in {<<>>, <<"confirmed">>, <<"cancelled">>}, n \in BOOLEAN :
          PatchBooking(t, id, st, n)
    \/ \E t \in Tenants, id \in 1..MaxBookings : ConfirmBooking(t, id)
    \/ \E t \in Tenants, id \in 1..MaxBookings : CancelBooking(t, id)
    \/ \E p \in DOMAIN procs, r \in EmitMoves : RescheduleStart(p, r)
    \/ \E p \in DOMAIN procs : RescheduleConflict(p)
    \/ \E p \in DOMAIN procs : RescheduleUpdate(p)

SpecPay == InitPay /\ [][NextPay]_vars

\* C25: confirm, cancel, reschedule and PATCH leave payment_status of every booking
\* as it was, whatever they answer
C25_PaymentStatusUntouched ==
    [][(Answered /\ resp'.op \in {"patch", "confirm", "cancel", "reschedule"}) =>
          /\ DOMAIN bookings' = DOMAIN bookings
          /\ \A i \in DOMAIN bookings :
                bookings'[i].payment_status = bookings[i].payment_status]_vars

\* a booking has just been confirmed while its payment is pending
C25_Witness ==
    /\ resp.op = "confirm" /\ resp.code = 200
    /\ resp.booking_id \in DOMAIN bookings
    /\ bookings[resp.booking_id].status = "confirmed"
    /\ bookings[resp.booking_id].payment_status = "pending"

----------------------------------------------------------------------------
(* Tenant isolation of the handlers that write a booking *)

\* C30: a PATCH, confirm, cancel or payment-webhook request made for one tenant
\* leaves every booking of another tenant as it was
C30_MutationsTenantIsolated ==
    [][\A i \in DOMAIN bookings :
          (/\ received' = received + 1
           /\ resp'.op \in {"patch", "confirm", "cancel", "webhook"}
           /\ bookings[i].tenant_id # resp'.tenant_id)
          => bookings'[i] = bookings[i]]_vars

----------------------------------------------------------------------------
(* valid_booking_time *)

\* handler p of a reserve or reschedule request whose interval is empty or back to
\* front answers in this step
AnswersBackToFront(p) ==
    /\ Answers(p)
    /\ procs[p].kind \in {"staff", "public", "reschedule"}
    /\ procs[p].start_time >= procs[p].end_time

\* C26: every booking in the table has start_time < end_time, and a reserve or
\* reschedule request with start_time >= end_time is answered with an error and
\* leaves the bookings as they were
C26_StartBeforeEnd ==
    /\ [](\A i \in DOMAIN bookings : bookings[i].start_time < bookings[i].end_time)
    /\ [][\A p \in DOMAIN procs :
             AnswersBackToFront(p) => resp'.code >= 400 /\ bookings' = bookings]_vars

\* a reschedule to 09:30-09:00 has been refused and the booking is where it was
C26_Witness ==
    /\ resp.op = "reschedule" /\ resp.code = 500
    /\ resp.booking_id \in DOMAIN bookings
    /\ bookings[resp.booking_id].start_time = 540
    /\ bookings[resp.booking_id].end_time = 570

----------------------------------------------------------------------------
(* Specification of the slot view next to the reserve check *)

MaxViewBookings == 1

\* working hours 09:00-10:30 on the day of week of date 1, or no rule
ViewRuleStores == {<<>>, <<Rule(1, 1, getDay(1), 540, 630, TRUE)>>}

\* a booking on a slot, across two slots, cancelled, of another day, and of another
\* professional
ViewBookingRows ==
    {Booking(1, <<1>>, 1, 1, 1, 540, 570, "pending", "pending", <<>>),
     Booking(1, <<1>>, 1, 1, 1, 550, 580, "confirmed", "pending", <<>>),
     Booking(1, <<1>>, 1, 1, 1, 570, 600, "cancelled", "pending", <<1>>),
     Booking(1, <<1>>, 1, 1, 2, 540, 570, "confirmed", "pending", <<>>),
     Booking(1, <<1>>, 2, 1, 1, 540, 570, "pending", "pending", <<>>)}

\* the three slots of the working hours
ViewIntervals == {<<540, 570>>, <<570, 600>>, <<600, 630>>}

ViewRequests ==
    {Request("staff", 1, <<AuthUser(1)>>, <<>>, 1, 1, 1, iv[1], iv[2], 0) :
        iv \in ViewIntervals}
    \cup {Request("public", 1, <<>>, <<GuestEmail>>, 1, 1, 1, iv[1], iv[2], 0) :
            iv \in ViewIntervals}

InitView ==
    /\ services = ServiceTable
    /\ rules \in ViewRuleStores
    /\ exceptions = {}
    /\ bookings \in SeqsUpTo(ViewBookingRows, MaxViewBookings)
    /\ users = UserTable
    /\ procs = [p \in {1} |-> NoProc]
    /\ resp = NoResp
    /\ slotsOut = NoSlotsOut
    /\ received = 0

NextView ==
    \/ GetSlotsStaff(1, 1, 1, <<1>>)
    \/ GetSlotsPublic(1, 1, 1, 1)
    \/ \E p \in DOMAIN procs, r \in ViewRequests : ReserveStart(p, r)
    \/ \E p \in DOMAIN procs : ReserveConflict(p)
    \/ \E p \in DOMAIN procs : ReserveClient(p)
    \/ \E p \in DOMAIN procs : ReserveInsertUser(p)
    \/ \E p \in DOMAIN procs : ReserveInsert(p)

SpecView == InitView /\ [][NextView]_vars

\* handler p runs the conflict query of a reserve request in this step
ChecksConflict(p) ==
    /\ ReserveInFlight(p)
    /\ procs[p].pc = "conflict" /\ procs'[p].pc # "conflict"

\* the slots the staff endpoint reports for request r in the state of the step, with
\* the duration of the requested service
ViewOf(r) ==
    SlotList(r.tenant_id, r.professional_id, r.date,
             services[r.service_id].duration_minutes)

\* C29: the slot view and the reserve check agree in every state: a slot query
\* reports a slot available exactly when the conflict query of a reserve request
\* finds nothing for it, and a reserve request for a slot of the view is refused with
\* 409 exactly when the view of that state reports the slot unavailable
C29_ViewAgreesWithReserve ==
    [][/\ SlotsAnswered =>
            \A k \in DOMAIN slotsOut'.slots :
                LET slot == slotsOut'.slots[k]
                IN  slot.available <=>
                        ~ConflictQuery(slotsOut'.professional_id, slotsOut'.date,
                                       Minutes(slot.start_time),
                                       Minutes(slot.end_time), {})
       /\ \A p \in DOMAIN procs :
            ChecksConflict(p) =>
                LET view == ViewOf(procs[p])
                IN  \A k \in DOMAIN view :
                        (/\ Minutes(view[k].start_time) = procs[p].start_time
                         /\ Minutes(view[k].end_time) = procs[p].end_time)
                        => (view[k].available <=>
                                ~(procs'[p].pc = "idle" /\ resp'.code = 409))]_vars

\* the staff view reported 09:00-09:30 and 09:30-10:00 taken by the booking
\* 09:10-09:40 and 10:00-10:30 free; a request for 09:30-10:00 was then refused
C29_Witness ==
    /\ slotsOut.endpoint = "staff" /\ Len(slotsOut.slots) = 3
    /\ ~slotsOut.slots[1].available /\ ~slotsOut.slots[2].available
    /\ slotsOut.slots[3].available
    /\ Len(bookings) = 1 /\ bookings[1].start_time = 550
    /\ resp.code = 409 /\ received = 1

----------------------------------------------------------------------------
(* Notifications of the public reserve handler *)

\* C27: when scheduling the notifications fails after the booking row of a public
\* reserve request is inserted, the request is still answered 201 with the booking,
\* booking:created has been emitted, and the row stays in the table
C27_NotificationFailureKeepsBooking ==
    [][\A p \in DOMAIN procs :
          (/\ procs[p].kind = "public" /\ Answers(p)
           /\ resp'.notified = <<FALSE>>)
          => /\ resp'.code = 201
             /\ resp'.event = <<"booking:created">>
             /\ bookings' = Append(bookings, NewBooking(procs[p]))
             /\ resp'.booking_id = Len(bookings')]_vars

\* a public request for 09:30-10:00 was answered 201 although the notifications
\* could not be scheduled; its row is in the table
C27_Witness ==
    /\ resp.op = "public" /\ resp.code = 201 /\ resp.notified = <<FALSE>>
    /\ resp.booking_id \in DOMAIN bookings
    /\ bookings[resp.booking_id].start_time = 570
    /\ bookings[resp.booking_id].status = "pending"

----------------------------------------------------------------------------
(* Specification of confirm racing with cancel *)

MaxRaceBookings == 1

\* a booking of either tenant in a status confirm or cancel may meet
RaceBookingRows ==
    {Booking(t, <<t>>, 1, 1, 1, 540, 570, st, "pending", <<>>) :
        t \in Tenants, st \in {"pending", "confirmed", "completed"}}

InitRace ==
    /\ services = ServiceTable
    /\ rules = <<>>
    /\ exceptions = {}
    /\ bookings \in SeqsUpTo(RaceBookingRows, MaxRaceBookings)
    /\ users = UserTable
    /\ procs = [p \in {1} |-> NoProc]
    /\ resp = NoResp
    /\ slotsOut = NoSlotsOut
    /\ received = 0

\* each handler is one UPDATE statement, so the two requests are served in one order
\* or the other
NextRace ==
    \/ \E t \in Tenants, id \in 1..MaxBookings : ConfirmBooking(t, id)
    \/ \E t \in Tenants, id \in 1..MaxBookings : CancelBooking(t, id)

SpecRace == InitRace /\ [][NextRace]_vars

\* C28: of a confirm and a cancel of the same pending booking the cancel succeeds in
\* either order, leaving the booking cancelled with cancelled_by recorded, and the
\* booking stays so; booking:confirmed is emitted only by a confirm whose update
\* applied to the pending booking, which a later confirm cannot repeat, so it is
\* emitted at most once and never after the cancel
C28_CancelWinsOverConfirm ==
    [][(Handled("confirm") \/ Handled("cancel")) =>
          LET id   == resp'.booking_id
              own  == id \in DOMAIN bookings /\ bookings[id].tenant_id = resp'.tenant_id
          IN  /\ (resp'.op = "cancel" /\ own
                    /\ bookings[id].status \in {"pending", "confirmed"})
                   => /\ resp'.code = 200
                      /\ bookings'[id].status = "cancelled"
                      /\ bookings'[id].cancelled_by = <<AuthUser(resp'.tenant_id)>>
              /\ resp'.event = <<"booking:confirmed">>
                   => /\ own /\ bookings[id].status = "pending"
                      /\ bookings'[id].status = "confirmed"
              /\ \A i \in DOMAIN bookings :
                    /\ bookings[i].status = "cancelled" => bookings'[i] = bookings[i]
                    /\ bookings[i].status # "pending" => bookings'[i].status # "pending"]_vars

\* the pending booking was confirmed and then cancelled: both requests answered 200
C28_Witness ==
    /\ received = 2 /\ resp.op = "cancel" /\ resp.code = 200
    /\ resp.event = <<"booking:cancelled">>
    /\ Len(bookings) = 1 /\ resp.booking_id = 1
    /\ bookings[1].status = "cancelled" /\ bookings[1].cancelled_by = <<1>>

====
